---- MODULE Spec2Model ----
(***************************************************************************)
(* Model of the SubX subtitle provider                                     *)
(* (custom_libs/subliminal_patch/providers/subx.py): title collection,     *)
(* the retry loop and result filter of run_query, and the title/tier loop  *)
(* of list_subtitles.  One list_subtitles invocation is a state machine    *)
(* whose steps are the HTTP attempts; the remote's answer to each attempt  *)
(* is the nondeterministic input.                                          *)
(***************************************************************************)
EXTENDS Integers, Sequences, FiniteSets, TLC

\* Python None / an absent JSON key value (seasons, episodes and ids are >= 0).
None == 0 - 1

\* A dict key that is absent altogether (item['id'] raises KeyError).
Missing == 0 - 2

(***************************************************************************)
(* Bounds of the model                                                     *)
(***************************************************************************)
\* longest "items" array of a response body
MaxItems == 2

\* number of alternative titles a video carries
MaxAlts == 1

\* number of alternative titles of a video whose titles are collected on
\* their own
MaxAltTitles == 4

\* longest title that is sanitized on its own
MaxTitleLen == 4

(***************************************************************************)
(* Program constants                                                       *)
(***************************************************************************)
max_retries == 3

max_alts == 3

(***************************************************************************)
(* Text helpers.  A string is a sequence of one-character strings.         *)
(***************************************************************************)
\* the characters \s matches and str.strip() removes, as far as titles
\* of the model hold them
Whitespace == {" ", "\t"}

Separators == {".", "_"}

RECURSIVE DropWhile(_, _)
DropWhile(s, class) ==
    IF s = <<>> THEN <<>>
    ELSE IF Head(s) \in class THEN DropWhile(Tail(s), class)
    ELSE s

\* re.sub(r"[class]+", " ", s): every maximal run of class characters becomes
\* one space.
RECURSIVE SubRuns(_, _)
SubRuns(s, class) ==
    IF s = <<>> THEN <<>>
    ELSE IF Head(s) \in class
         THEN <<" ">> \o SubRuns(DropWhile(s, class), class)
         ELSE <<Head(s)>> \o SubRuns(Tail(s), class)

RECURSIVE Reverse(_)
Reverse(s) == IF s = <<>> THEN <<>> ELSE Reverse(Tail(s)) \o <<Head(s)>>

\* str.strip()
Strip(s) == Reverse(DropWhile(Reverse(DropWhile(s, Whitespace)), Whitespace))

\* a sanitizer that collapses whitespace before it replaces the separators
_series_sanitizer_swapped(title) ==
    Strip(SubRuns(SubRuns(title, Whitespace), Separators))

\* title or "" is the title itself: an absent title is the empty one
_series_sanitizer(title) ==
    Strip(SubRuns(SubRuns(title, Separators), Whitespace))

RECURSIVE UniqueNonemptyFrom(_, _)
UniqueNonemptyFrom(seq, out) ==
    IF seq = <<>> THEN out
    ELSE IF Head(seq) = <<>> THEN UniqueNonemptyFrom(Tail(seq), out)
    ELSE IF \E i \in 1..Len(out) : out[i] = Head(seq)
         THEN UniqueNonemptyFrom(Tail(seq), out)
    ELSE UniqueNonemptyFrom(Tail(seq), Append(out, Head(seq)))

_unique_nonempty(seq) == UniqueNonemptyFrom(seq, <<>>)

Prefix(s, n) == IF Len(s) <= n THEN s ELSE SubSeq(s, 1, n)

\* a title collection that is not cut to the cap
_collect_titles_uncut(v, cap) == _unique_nonempty(<<v.title>> \o v.alts)

\* video.series / video.title followed by the alternatives, deduplicated,
\* cut to max_alts entries.
_collect_titles(v, cap) == Prefix(_unique_nonempty(<<v.title>> \o v.alts), cap)

(***************************************************************************)
(* Videos.  title is video.series (Episode) or video.title (Movie); alts   *)
(* is alternative_series / alternative_titles; imdb_id "" is an absent id. *)
(***************************************************************************)
\* the sequences over S of length at most n
SeqsUpTo(S, n) == UNION {[1..k -> S] : k \in 0..n}

\* year is video.year, None when absent; in the model the videos with an
\* imdb_id are those with a year
Episodes ==
    {v \in [kind : {"episode"}, title : {<<"a">>, <<"_">>},
            alts : SeqsUpTo({<<"a">>, <<"b">>}, MaxAlts),
            season : {1}, episode : {1}, imdb_id : {"", "tt1"},
            year : {None, 2008}] :
        v.year = None <=> v.imdb_id = ""}

Movies ==
    {v \in [kind : {"movie"}, title : {<<>>, <<"a">>},
            alts : SeqsUpTo({<<"b">>}, MaxAlts),
            season : {None}, episode : {None}, imdb_id : {"", "tt1"},
            year : {None, 2008}] :
        v.year = None <=> v.imdb_id = ""}

Videos == Episodes \cup Movies

isEpisode(v) == v.kind = "episode"

(***************************************************************************)
(* The remote's answers.  status 0 stands for "no response": session.get   *)
(* raised (timeout, connection error).  A body is what response.json()     *)
(* yields: it fails ("unparsable"), or gives null, a non-object value      *)
(* ("array"), or an object whose "items" are the raw result items.         *)
(***************************************************************************)
StatusCodes == {200, 400, 401, 403, 404, 429, 500, 503}

Item(s, e, i, u) == [season |-> s, episode |-> e, id |-> i, page_url |-> u]

\* Raw result items of the filter's own specification.
RawItems ==
    {Item(s, e, i, None) : s \in {None, 1, 2}, e \in {None, 1, 2}, i \in {Missing, 1, 2}}
    \cup {Item(1, e, i, 9) : e \in {None, 1}, i \in {Missing, 1}}

\* Raw result items the remote sends during a list_subtitles invocation.
WireItems ==
    {Item(1, 1, 1, None), Item(1, None, 2, None), Item(1, 2, 1, None),
     Item(1, 1, Missing, None), Item(2, 1, 2, None)}

Body(shape, items) == [shape |-> shape, items |-> items]

NoBody == Body("none", <<>>)

Bodies ==
    {Body("unparsable", <<>>), Body("null", <<>>), Body("array", <<>>)}
    \cup {Body("object", its) : its \in SeqsUpTo(WireItems, MaxItems)}

Resp(status, body) == [status |-> status, body |-> body]

NoResp == Resp(None, NoBody)

(***************************************************************************)
(* Query texts of list_subtitles                                           *)
(***************************************************************************)
Digit(n) == <<"0", "1", "2", "3", "4", "5", "6", "7", "8", "9">>[n + 1]

\* "%02d" for 0 <= n < 100
TwoDigits(n) == <<Digit(n \div 10), Digit(n % 10)>>

\* number of tiers list_subtitles tries per title
Tiers(v) == IF isEpisode(v) THEN 3 ELSE 1

\* the query argument of the tier's run_query call; raw is the title as
\* collected
QueryText(v, raw, t) ==
    IF ~isEpisode(v) THEN raw
    ELSE IF t = 1
         THEN _series_sanitizer(raw) \o <<" ", "S">> \o TwoDigits(v.season)
                  \o <<"E">> \o TwoDigits(v.episode)
    ELSE IF t = 2
         THEN _series_sanitizer(raw) \o <<" ", "S">> \o TwoDigits(v.season)
    ELSE _series_sanitizer(raw)

\* a season= argument that the title-only tier leaves unset
QuerySeason_unset_last(v, t) == IF isEpisode(v) /\ t < 3 THEN v.season ELSE None

\* the season= argument of the tier's run_query call
QuerySeason(v, t) == IF isEpisode(v) THEN v.season ELSE None

\* an episode= argument set in every tier
QueryEpisode_always(v, t) == IF isEpisode(v) THEN v.episode ELSE None

\* the episode= argument of the tier's run_query call
QueryEpisode(v, t) == IF isEpisode(v) /\ t = 1 THEN v.episode ELSE None

Query(v, raw, t) ==
    [text |-> QueryText(v, raw, t), video_type |-> v.kind,
     season |-> QuerySeason(v, t), episode |-> QueryEpisode(v, t)]

NoQuery == [text |-> <<>>, video_type |-> "", season |-> None, episode |-> None]

\* a request that carries the query text whether or not there is an imdb_id
Params_with_title(v, q) ==
    [by |-> IF v.imdb_id # "" THEN "imdb_id"
            ELSE IF q.text # <<>> THEN "title" ELSE "none",
     limit |-> 200, video_type |-> q.video_type, imdb_id |-> v.imdb_id,
     title |-> q.text, year |-> v.year]

\* run_query's request parameters: limit, video_type, imdb_id or title,
\* year; an empty imdb_id or title and the year None are keys that the
\* request does not carry.  by is "none" when there is nothing to search
\* by and run_query returns [].
Params(v, q) ==
    LET base == [by |-> "none", limit |-> 200, video_type |-> q.video_type,
                 imdb_id |-> "", title |-> <<>>, year |-> v.year]
    IN  IF v.imdb_id # "" THEN [base EXCEPT !.by = "imdb_id", !.imdb_id = v.imdb_id]
        ELSE IF q.text # <<>> THEN [base EXCEPT !.by = "title", !.title = q.text]
        ELSE base

(***************************************************************************)
(* run_query: one iteration of the retry loop                              *)
(***************************************************************************)
RECURSIVE Pow2(_)
Pow2(n) == IF n = 0 THEN 1 ELSE 2 * Pow2(n - 1)

\* How an iteration leaves the loop body.
Return == [kind |-> "return", wait |-> 0, exc |-> "none", data |-> NoBody]

Continue(w) == [kind |-> "continue", wait |-> w, exc |-> "none", data |-> NoBody]

Raise(e) == [kind |-> "raise", wait |-> 0, exc |-> e, data |-> NoBody]

Break(d) == [kind |-> "break", wait |-> 0, exc |-> "none", data |-> d]

\* a backoff of 2 * attempt seconds
wait_time_doubled(attempt) == 2 * attempt

\* the backoff of a 429 or a status >= 500 answer
wait_time(attempt) == Pow2(attempt)

\* a 400 answer handled like a 429 one
BadRequest_retried(attempt) ==
    IF attempt < max_retries - 1 THEN Continue(Pow2(attempt)) ELSE Return

\* response.status_code == 400: "Don't retry on bad requests"
BadRequest(attempt) == Return

\* response.status_code == 404
NotFound(attempt) == Return

\* response.status_code == 429
RateLimited(attempt) ==
    IF attempt < max_retries - 1 THEN Continue(wait_time(attempt))
    ELSE Raise("APIThrottled")

\* a 5xx answer that is retried whatever the attempt
ServerError_forever(attempt) == Continue(wait_time(attempt))

\* response.status_code >= 500
ServerError(attempt) ==
    IF attempt < max_retries - 1 THEN Continue(wait_time(attempt))
    ELSE Return

\* an error status that ends the search instead of raising
Success_error_final(resp) ==
    IF resp.status >= 400 THEN Return
    ELSE IF resp.body.shape = "unparsable" THEN Raise("JSONDecodeError")
    ELSE Break(resp.body)

\* response.raise_for_status(); data = response.json(); break
Success(resp) ==
    IF resp.status >= 400 THEN Raise("HTTPError")
    ELSE IF resp.body.shape = "unparsable" THEN Raise("JSONDecodeError")
    ELSE Break(resp.body)

\* The body of the try statement.
TryBody(resp, attempt) ==
    IF resp.status = 0 THEN Raise("RequestException")
    ELSE IF resp.status = 400 THEN BadRequest(attempt)
    ELSE IF resp.status = 401 THEN Raise("ConfigurationError")
    ELSE IF resp.status = 404 THEN NotFound(attempt)
    ELSE IF resp.status = 429 THEN RateLimited(attempt)
    ELSE IF resp.status >= 500 THEN ServerError(attempt)
    ELSE Success(resp)

\* The exceptions "except Exception" catches: ConfigurationError and
\* APIThrottled derive from Exception like the transport and parsing errors.
ExceptionClasses ==
    {"RequestException", "HTTPError", "JSONDecodeError", "ConfigurationError",
     "APIThrottled"}

\* an except clause that gives up at once
ExceptHandler_gives_up(attempt) == Return

\* except Exception as e
ExceptHandler(attempt) ==
    IF attempt < max_retries - 1 THEN Continue(Pow2(attempt)) ELSE Return

\* try: ... except Exception: ...
RetryIteration(resp, attempt) ==
    LET step == TryBody(resp, attempt)
    IN  IF step.kind = "raise" /\ step.exc \in ExceptionClasses
        THEN ExceptHandler(attempt)
        ELSE step

(***************************************************************************)
(* run_query: the result filter that follows the retry loop                *)
(***************************************************************************)
\* page_url, or the URL derived from the item's id when there is none
PageLink(item) ==
    IF item.page_url # None THEN [from |-> "page_url", v |-> item.page_url]
    ELSE IF item.id # Missing THEN [from |-> "id", v |-> item.id]
    ELSE [from |-> "none", v |-> None]

\* self.subtitle_class(...): the candidate built from a raw item; matches is
\* what get_matches stores in self.matches, empty until it is called
SubxSubtitle(item) ==
    [page_link |-> PageLink(item), download_id |-> item.id,
     season |-> item.season, episode |-> item.episode, matches |-> {}]

Filtered(exc, subs, packs) ==
    [exc |-> exc, subtitles |-> subs, season_packs |-> packs]

\* a season test that lets items without season through
SeasonMismatch_truthy(item, season) ==
    season # None /\ item.season # None /\ item.season # season

\* "if season is not None and item_season != season": the item is skipped
SeasonMismatch(item, season) == season # None /\ item.season # season

\* "for item in data.get('items', [])": the first loop, with its two
\* accumulators; item['id'] of an item without id raises KeyError.
RECURSIVE ItemLoop(_, _, _, _, _)
ItemLoop(items, season, episode, subs, packs) ==
    IF items = <<>> THEN Filtered("none", subs, packs)
    ELSE LET item == Head(items)
             rest == Tail(items)
         IN  IF SeasonMismatch(item, season)
             THEN ItemLoop(rest, season, episode, subs, packs)
             ELSE IF episode # None /\ item.episode # episode
             THEN IF item.episode = None /\ item.season = season
                  THEN ItemLoop(rest, season, episode, subs, Append(packs, item))
                  ELSE ItemLoop(rest, season, episode, subs, packs)
             ELSE IF item.id = Missing
             THEN Filtered("KeyError", subs, packs)
             ELSE ItemLoop(rest, season, episode,
                           Append(subs, SubxSubtitle(item)), packs)

\* a fallback loop that stops after its first season pack
PackLoop_first(packs, subs) ==
    IF packs = <<>> THEN Filtered("none", subs, <<>>)
    ELSE IF Head(packs).id = Missing THEN Filtered("KeyError", subs, <<>>)
    ELSE Filtered("none", Append(subs, SubxSubtitle(Head(packs))), <<>>)

\* "for item in season_packs": the fallback loop
RECURSIVE PackLoop(_, _)
PackLoop(packs, subs) ==
    IF packs = <<>> THEN Filtered("none", subs, <<>>)
    ELSE IF Head(packs).id = Missing THEN Filtered("KeyError", subs, <<>>)
    ELSE PackLoop(Tail(packs), Append(subs, SubxSubtitle(Head(packs))))

\* a fallback that does not ask whether exact matches were found
UseSeasonPacks_merged(episode, subs, packs) ==
    episode # None /\ packs # <<>>

\* the season-pack fallback applies
UseSeasonPacks(episode, subs, packs) ==
    episode # None /\ subs = <<>> /\ packs # <<>>

\* Everything run_query does with the items of a parsed object.
FilterItems(items, season, episode) ==
    LET first == ItemLoop(items, season, episode, <<>>, <<>>)
    IN  IF first.exc # "none" THEN first
        ELSE IF UseSeasonPacks(episode, first.subtitles, first.season_packs)
        THEN PackLoop(first.season_packs, first.subtitles)
        ELSE Filtered("none", first.subtitles, <<>>)

\* a filter that is never told the wanted episode
AfterLoop_any_episode(data, season, episode) ==
    IF data.shape = "null" THEN Filtered("none", <<>>, <<>>)
    ELSE IF data.shape # "object" THEN Filtered("AttributeError", <<>>, <<>>)
    ELSE FilterItems(data.items, season, None)

\* Everything run_query does after the retry loop: data is what
\* response.json() gave.  None returns []; a value that is no object has no
\* .get and raises AttributeError.
AfterLoop(data, season, episode) ==
    IF data.shape = "null" THEN Filtered("none", <<>>, <<>>)
    ELSE IF data.shape # "object" THEN Filtered("AttributeError", <<>>, <<>>)
    ELSE FilterItems(data.items, season, episode)

(***************************************************************************)
(* SubxSubtitle.get_matches                                                *)
(***************************************************************************)
\* attribute names update_matches may add to or take from the set
Attributes == {"season", "episode", "release_group", "resolution"}

\* What one update_matches call does to the set it is given: it adds the
\* attributes add and discards the attributes remove.
Updates == [add : SUBSET Attributes, remove : SUBSET Attributes]

update_matches(matches, u) == (matches \cup u.add) \ u.remove

\* base rules in which a season pack gets no episode match
BaseMatches_strict(sub, v) ==
    IF isEpisode(v)
    THEN {"title", "series", "year"}
         \cup (IF sub.season = v.season THEN {"season"} ELSE {})
         \cup (IF sub.episode = v.episode THEN {"episode"} ELSE {})
    ELSE IF v.kind = "movie" THEN {"title", "year"}
    ELSE {}

\* the set get_matches builds before it calls update_matches
BaseMatches(sub, v) ==
    IF isEpisode(v)
    THEN {"title", "series", "year"}
         \cup (IF sub.season = v.season THEN {"season"} ELSE {})
         \cup (IF sub.episode # None
               THEN IF sub.episode = v.episode THEN {"episode"} ELSE {}
               ELSE {"episode"})
    ELSE IF v.kind = "movie" THEN {"title", "year"}
    ELSE {}

\* get_matches that lets update_matches undo the episode match of a pack
get_matches_unrestored(sub, v, u) == update_matches(BaseMatches(sub, v), u)

\* get_matches(video), update_matches acting as u
get_matches(sub, v, u) ==
    LET base == BaseMatches(sub, v)
        is_season_pack == isEpisode(v) /\ sub.episode = None
        had_episode_match == "episode" \in base
        updated == update_matches(base, u)
    IN  IF is_season_pack /\ had_episode_match
        THEN updated \cup {"episode"}
        ELSE updated

(***************************************************************************)
(* One list_subtitles invocation                                           *)
(***************************************************************************)
VARIABLES
    pc,         \* "idle", "call", "request", "returned", "done"
    video,      \* the video of the invocation
    titles,     \* _collect_titles(video)
    ti,         \* index of the title being tried
    tier,       \* tier of the title being tried
    query,      \* arguments of the current run_query call
    attempt,    \* run_query's loop variable
    sleeps,     \* arguments of the time.sleep calls of the current run_query
    last,       \* the remote's answer to the latest attempt of this run_query
    all429,     \* every attempt of this run_query so far was answered 429
    qres,       \* what the current run_query returned
    subtitles,  \* list_subtitles' local variable
    outcome,    \* "none", "returned", or the exception that left list_subtitles
    nHttp,      \* session.get calls of the invocation
    nPace,      \* time.sleep(1) calls of list_subtitles
    first401,   \* the first session.get of the invocation was answered 401
    threads,    \* the invocations that run concurrently on one provider,
                \* and the requests in flight on its session
    sync        \* a sync_subtitles call (bazarr/subtitles/sync.py)

vars ==
    <<pc, video, titles, ti, tier, query, attempt, sleeps, last, all429, qres,
      subtitles, outcome, nHttp, nPace, first401, threads, sync>>

\* a provider on which no invocations run concurrently
NoThreads == [inv |-> <<>>, inflight |-> {}]

\* no sync_subtitles call
NoSync == [pc |-> "none"]

NoVideo ==
    [kind |-> "", title |-> <<>>, alts |-> <<>>, season |-> None,
     episode |-> None, imdb_id |-> "", year |-> None]

Init ==
    /\ pc = "idle"
    /\ video = NoVideo
    /\ titles = <<>>
    /\ ti = 0
    /\ tier = 0
    /\ query = NoQuery
    /\ attempt = 0
    /\ sleeps = <<>>
    /\ last = NoResp
    /\ all429 = FALSE
    /\ qres = <<>>
    /\ subtitles = <<>>
    /\ outcome = "none"
    /\ nHttp = 0
    /\ nPace = 0
    /\ first401 = FALSE
    /\ threads = NoThreads
    /\ sync = NoSync

\* list_subtitles(video, languages) up to its first run_query call
ListSubtitles(v) ==
    /\ pc = "idle"
    /\ video' = v
    /\ titles' = _collect_titles(v, max_alts)
    /\ subtitles' = <<>>
    /\ IF titles' = <<>>
       THEN /\ pc' = "done"
            /\ outcome' = "returned"
            /\ UNCHANGED <<ti, tier, query>>
       ELSE /\ pc' = "call"
            /\ ti' = 1
            /\ tier' = 1
            /\ query' = Query(v, titles'[1], 1)
            /\ UNCHANGED outcome
    /\ UNCHANGED <<attempt, sleeps, last, all429, qres, nHttp, nPace, first401>>
    /\ UNCHANGED <<threads, sync>>

\* run_query up to its retry loop: without imdb_id and query it returns []
RunQueryEntry ==
    /\ pc = "call"
    /\ attempt' = 0
    /\ sleeps' = <<>>
    /\ last' = NoResp
    /\ all429' = FALSE
    /\ qres' = <<>>
    /\ pc' = IF Params(video, query).by = "none" THEN "returned" ELSE "request"
    /\ UNCHANGED <<video, titles, ti, tier, query, subtitles, outcome, nHttp,
                   nPace, first401>>
    /\ UNCHANGED <<threads, sync>>

\* One iteration of the retry loop, the remote answering resp, and, when the
\* loop ends with it, the rest of run_query.  An exception leaving run_query
\* leaves list_subtitles too.
Attempt(resp) ==
    /\ pc = "request"
    /\ nHttp' = nHttp + 1
    /\ last' = resp
    /\ all429' = ((attempt = 0 \/ all429) /\ resp.status = 429)
    /\ first401' = IF nHttp = 0 THEN resp.status = 401 ELSE first401
    /\ LET step == RetryIteration(resp, attempt)
           done == AfterLoop(step.data, query.season, query.episode)
       IN  CASE step.kind = "continue" ->
                  /\ sleeps' = Append(sleeps, step.wait)
                  /\ attempt' = attempt + 1
                  /\ UNCHANGED <<pc, qres, outcome>>
             [] step.kind = "return" ->
                  /\ pc' = "returned"
                  /\ qres' = <<>>
                  /\ UNCHANGED <<sleeps, attempt, outcome>>
             [] step.kind = "raise" ->
                  /\ pc' = "done"
                  /\ outcome' = step.exc
                  /\ UNCHANGED <<sleeps, attempt, qres>>
             [] step.kind = "break" /\ done.exc # "none" ->
                  /\ pc' = "done"
                  /\ outcome' = done.exc
                  /\ UNCHANGED <<sleeps, attempt, qres>>
             [] step.kind = "break" /\ done.exc = "none" ->
                  /\ pc' = "returned"
                  /\ qres' = done.subtitles
                  /\ UNCHANGED <<sleeps, attempt, outcome>>
    /\ UNCHANGED <<video, titles, ti, tier, query, subtitles, nPace>>
    /\ UNCHANGED <<threads, sync>>

\* session.get raised: no response arrived
GetRaises == Attempt(Resp(0, NoBody))

\* an answer whose status run_query or raise_for_status treats as an error
GetError ==
    /\ pc = "request"
    /\ \E s \in {c \in StatusCodes : c >= 400} : Attempt(Resp(s, NoBody))

\* an answer with a success status and some body
GetSuccess ==
    /\ pc = "request"
    /\ \E s \in {c \in StatusCodes : c < 400}, b \in Bodies : Attempt(Resp(s, b))

\* a test that takes a single candidate for none
Found_several(res) == Len(res) > 1

\* "if subtitles:" after a run_query call
Found(res) == res # <<>>

\* a list_subtitles that sleeps after every run_query call without result
AfterRunQuery_paced_tiers ==
    /\ pc = "returned"
    /\ subtitles' = qres
    /\ IF Found(qres)
       THEN /\ pc' = "done"
            /\ outcome' = "returned"
            /\ UNCHANGED <<ti, tier, query, nPace>>
       ELSE /\ nPace' = nPace + 1
            /\ IF tier < Tiers(video)
               THEN /\ pc' = "call"
                    /\ tier' = tier + 1
                    /\ query' = Query(video, titles[ti], tier + 1)
                    /\ UNCHANGED <<ti, outcome>>
               ELSE IF ti < Len(titles)
               THEN /\ pc' = "call"
                    /\ ti' = ti + 1
                    /\ tier' = 1
                    /\ query' = Query(video, titles[ti + 1], 1)
                    /\ UNCHANGED outcome
               ELSE /\ pc' = "done"
                    /\ outcome' = "returned"
                    /\ UNCHANGED <<ti, tier, query>>
    /\ attempt' = 0
    /\ sleeps' = <<>>
    /\ last' = NoResp
    /\ all429' = FALSE
    /\ qres' = <<>>
    /\ UNCHANGED <<video, titles, nHttp, first401>>
    /\ UNCHANGED <<threads, sync>>

\* list_subtitles from the return of a run_query call to the next call, or
\* to its own return.  The locals of the run_query call that returned are
\* gone.
AfterRunQuery ==
    /\ pc = "returned"
    /\ subtitles' = qres
    /\ IF Found(qres)
       THEN /\ pc' = "done"
            /\ outcome' = "returned"
            /\ UNCHANGED <<ti, tier, query, nPace>>
       ELSE IF tier < Tiers(video)
       THEN /\ pc' = "call"
            /\ tier' = tier + 1
            /\ query' = Query(video, titles[ti], tier + 1)
            /\ UNCHANGED <<ti, outcome, nPace>>
       ELSE /\ nPace' = nPace + 1
            /\ IF ti < Len(titles)
               THEN /\ pc' = "call"
                    /\ ti' = ti + 1
                    /\ tier' = 1
                    /\ query' = Query(video, titles[ti + 1], 1)
                    /\ UNCHANGED outcome
               ELSE /\ pc' = "done"
                    /\ outcome' = "returned"
                    /\ UNCHANGED <<ti, tier, query>>
    /\ attempt' = 0
    /\ sleeps' = <<>>
    /\ last' = NoResp
    /\ all429' = FALSE
    /\ qres' = <<>>
    /\ UNCHANGED <<video, titles, nHttp, first401>>
    /\ UNCHANGED <<threads, sync>>

Next ==
    \/ \E v \in Videos : ListSubtitles(v)
    \/ RunQueryEntry
    \/ GetRaises
    \/ GetError
    \/ GetSuccess
    \/ AfterRunQuery

Spec == Init /\ [][Next]_vars

(***************************************************************************)
(* run_query called on its own with a parsed answer: the result filter as  *)
(* a function of the items and of the season= and episode= arguments.      *)
(***************************************************************************)
FilterVideo ==
    [kind |-> "episode", title |-> <<"a">>, alts |-> <<>>, season |-> 1,
     episode |-> 1, imdb_id |-> "", year |-> None]

FilterQueries ==
    [text : {<<"a">>}, video_type : {"episode"}, season : {None, 1},
     episode : {None, 1}]

FilterInit ==
    /\ pc = "request"
    /\ video = FilterVideo
    /\ titles = <<>>
    /\ ti = 0
    /\ tier = 0
    /\ query \in FilterQueries
    /\ attempt = 0
    /\ sleeps = <<>>
    /\ last = NoResp
    /\ all429 = FALSE
    /\ qres = <<>>
    /\ subtitles = <<>>
    /\ outcome = "none"
    /\ nHttp = 0
    /\ nPace = 0
    /\ first401 = FALSE
    /\ threads = NoThreads
    /\ sync = NoSync

GetItems ==
    /\ pc = "request"
    /\ \E its \in SeqsUpTo(RawItems, MaxItems) :
           Attempt(Resp(200, Body("object", its)))

FilterNext == GetItems

SpecFilter == FilterInit /\ [][FilterNext]_vars

(***************************************************************************)
(* get_matches called on a candidate: the caller holds a video and one     *)
(* candidate built from a raw item.                                        *)
(***************************************************************************)
MatchVideos ==
    {FilterVideo,
     [kind |-> "movie", title |-> <<"a">>, alts |-> <<>>, season |-> None,
      episode |-> None, imdb_id |-> "", year |-> None]}

MatchInit ==
    /\ pc = "score"
    /\ video \in MatchVideos
    /\ titles = <<>>
    /\ ti = 0
    /\ tier = 0
    /\ query = NoQuery
    /\ attempt = 0
    /\ sleeps = <<>>
    /\ last = NoResp
    /\ all429 = FALSE
    /\ qres = <<>>
    /\ subtitles \in {<<SubxSubtitle(it)>> : it \in {r \in RawItems : r.id # Missing}}
    /\ outcome = "none"
    /\ nHttp = 0
    /\ nPace = 0
    /\ first401 = FALSE
    /\ threads = NoThreads
    /\ sync = NoSync

\* subtitle.get_matches(video) on the candidate, update_matches acting as
\* u; qres keeps the candidate as it is when update_matches is called, its
\* matches being those of the base rules
GetMatches(u) ==
    /\ pc = "score"
    /\ pc' = "scored"
    /\ qres' =
          <<[subtitles[1] EXCEPT !.matches = BaseMatches(subtitles[1], video)]>>
    /\ subtitles' =
          [subtitles EXCEPT ![1].matches = get_matches(subtitles[1], video, u)]
    /\ UNCHANGED <<video, titles, ti, tier, query, attempt, sleeps, last, all429,
                   outcome, nHttp, nPace, first401>>
    /\ UNCHANGED <<threads, sync>>

MatchNext == \E u \in Updates : GetMatches(u)

SpecMatches == MatchInit /\ [][MatchNext]_vars

(***************************************************************************)
(* _collect_titles called on a video, with the cap list_subtitles passes.  *)
(* An absent title or list of alternatives is the empty one.               *)
(***************************************************************************)
TitleStrings == {<<>>, <<"a">>, <<"b">>, <<"c">>, <<"d">>}

TitleVideos ==
    [kind : {"episode", "movie"}, title : {<<>>, <<"a">>},
     alts : SeqsUpTo(TitleStrings, MaxAltTitles), season : {None},
     episode : {None}, imdb_id : {""}, year : {None}]

TitlesInit ==
    /\ pc = "collect"
    /\ video \in TitleVideos
    /\ titles = <<>>
    /\ ti = 0
    /\ tier = 0
    /\ query = NoQuery
    /\ attempt = 0
    /\ sleeps = <<>>
    /\ last = NoResp
    /\ all429 = FALSE
    /\ qres = <<>>
    /\ subtitles = <<>>
    /\ outcome = "none"
    /\ nHttp = 0
    /\ nPace = 0
    /\ first401 = FALSE
    /\ threads = NoThreads
    /\ sync = NoSync

\* titles = _collect_titles(video, ..., max_alts=3)
CollectTitles ==
    /\ pc = "collect"
    /\ pc' = "collected"
    /\ titles' = _collect_titles(video, max_alts)
    /\ UNCHANGED <<video, ti, tier, query, attempt, sleeps, last, all429, qres,
                   subtitles, outcome, nHttp, nPace, first401>>
    /\ UNCHANGED <<threads, sync>>

TitlesNext == CollectTitles

SpecTitles == TitlesInit /\ [][TitlesNext]_vars

(***************************************************************************)
(* _series_sanitizer called on a title, and again on what it returned:     *)
(* titles holds the title and the results so far.                          *)
(***************************************************************************)
TitleChars == {"a", ".", "_", " ", "\t"}

SanitizeInit ==
    /\ pc = "sanitize"
    /\ video = NoVideo
    /\ titles \in {<<t>> : t \in SeqsUpTo(TitleChars, MaxTitleLen)}
    /\ ti = 0
    /\ tier = 0
    /\ query = NoQuery
    /\ attempt = 0
    /\ sleeps = <<>>
    /\ last = NoResp
    /\ all429 = FALSE
    /\ qres = <<>>
    /\ subtitles = <<>>
    /\ outcome = "none"
    /\ nHttp = 0
    /\ nPace = 0
    /\ first401 = FALSE
    /\ threads = NoThreads
    /\ sync = NoSync

\* title = _series_sanitizer(title)
Sanitize ==
    /\ pc = "sanitize"
    /\ titles' = Append(titles, _series_sanitizer(titles[Len(titles)]))
    /\ pc' = IF Len(titles) = 1 THEN "sanitize" ELSE "sanitized"
    /\ UNCHANGED <<video, ti, tier, query, attempt, sleeps, last, all429, qres,
                   subtitles, outcome, nHttp, nPace, first401>>
    /\ UNCHANGED <<threads, sync>>

SanitizeNext == Sanitize

SpecSanitize == SanitizeInit /\ [][SanitizeNext]_vars

(***************************************************************************)
(* Two list_subtitles invocations on one provider.  The provider object    *)
(* holds nothing but the session (self.session, set in __init__); what     *)
(* list_subtitles and run_query work with are locals of the call, so each  *)
(* invocation has its own copy of the variables of a single invocation,    *)
(* kept in threads.inv, and steps as a single invocation does.  A request  *)
(* is sent on the shared session and answered later, so that the requests  *)
(* of the two invocations overlap and are answered in any order.           *)
(***************************************************************************)
Threads == {1, 2}

\* the locals of an invocation that has not started
IdleLocals ==
    [pc |-> "idle", video |-> NoVideo, titles |-> <<>>, ti |-> 0, tier |-> 0,
     query |-> NoQuery, attempt |-> 0, sleeps |-> <<>>, last |-> NoResp,
     all429 |-> FALSE, qres |-> <<>>, subtitles |-> <<>>, outcome |-> "none",
     nHttp |-> 0, nPace |-> 0, first401 |-> FALSE]

\* list_subtitles(video) up to its first run_query call
ThreadListSubtitles(s, v) ==
    LET ts == _collect_titles(v, max_alts)
        entered == [s EXCEPT !.video = v, !.titles = ts, !.subtitles = <<>>]
    IN  IF ts = <<>>
        THEN [entered EXCEPT !.pc = "done", !.outcome = "returned"]
        ELSE [entered EXCEPT !.pc = "call", !.ti = 1, !.tier = 1,
                             !.query = Query(v, ts[1], 1)]

\* run_query up to its retry loop
ThreadRunQueryEntry(s) ==
    [s EXCEPT !.attempt = 0, !.sleeps = <<>>, !.last = NoResp,
              !.all429 = FALSE, !.qres = <<>>,
              !.pc = IF Params(s.video, s.query).by = "none"
                     THEN "returned" ELSE "request"]

\* one iteration of the retry loop, the remote answering resp, and, when
\* the loop ends with it, the rest of run_query
ThreadAttempt(s, resp) ==
    LET step == RetryIteration(resp, s.attempt)
        done == AfterLoop(step.data, s.query.season, s.query.episode)
        answered ==
            [s EXCEPT !.nHttp = s.nHttp + 1, !.last = resp,
                      !.all429 = ((s.attempt = 0 \/ s.all429)
                                      /\ resp.status = 429),
                      !.first401 = IF s.nHttp = 0 THEN resp.status = 401
                                   ELSE s.first401]
    IN  CASE step.kind = "continue" ->
               [answered EXCEPT !.sleeps = Append(s.sleeps, step.wait),
                                !.attempt = s.attempt + 1]
          [] step.kind = "return" ->
               [answered EXCEPT !.pc = "returned", !.qres = <<>>]
          [] step.kind = "raise" ->
               [answered EXCEPT !.pc = "done", !.outcome = step.exc]
          [] step.kind = "break" /\ done.exc # "none" ->
               [answered EXCEPT !.pc = "done", !.outcome = done.exc]
          [] step.kind = "break" /\ done.exc = "none" ->
               [answered EXCEPT !.pc = "returned", !.qres = done.subtitles]

\* list_subtitles from the return of a run_query call to the next call, or
\* to its own return
ThreadAfterRunQuery(s) ==
    LET back == [s EXCEPT !.subtitles = s.qres, !.attempt = 0,
                          !.sleeps = <<>>, !.last = NoResp,
                          !.all429 = FALSE, !.qres = <<>>]
    IN  IF Found(s.qres)
        THEN [back EXCEPT !.pc = "done", !.outcome = "returned"]
        ELSE IF s.tier < Tiers(s.video)
        THEN [back EXCEPT !.pc = "call", !.tier = s.tier + 1,
                          !.query = Query(s.video, s.titles[s.ti], s.tier + 1)]
        ELSE IF s.ti < Len(s.titles)
        THEN [back EXCEPT !.nPace = s.nPace + 1, !.pc = "call",
                          !.ti = s.ti + 1, !.tier = 1,
                          !.query = Query(s.video, s.titles[s.ti + 1], 1)]
        ELSE [back EXCEPT !.nPace = s.nPace + 1, !.pc = "done",
                          !.outcome = "returned"]

\* the videos of the two invocations
ThreadVideos ==
    <<FilterVideo,
      [kind |-> "movie", title |-> <<"b">>, alts |-> <<>>, season |-> None,
       episode |-> None, imdb_id |-> "", year |-> None]>>

\* what the remote answers to a request of either invocation
ThreadAnswers ==
    {Resp(0, NoBody), Resp(401, NoBody), Resp(404, NoBody), Resp(429, NoBody),
     Resp(500, NoBody),
     Resp(200, Body("object", <<>>)),
     Resp(200, Body("object", <<Item(1, None, 2, None)>>)),
     Resp(200, Body("object", <<Item(1, 1, Missing, None)>>))}

\* a loop variable that the invocations share
LoopVariable_shared(t, p) == t.inv[1].attempt

\* "for attempt in range(max_retries)": the loop variable of the run_query
\* call of invocation p
LoopVariable(t, p) == t.inv[p].attempt

ThreadsInit ==
    /\ pc = "idle"
    /\ video = NoVideo
    /\ titles = <<>>
    /\ ti = 0
    /\ tier = 0
    /\ query = NoQuery
    /\ attempt = 0
    /\ sleeps = <<>>
    /\ last = NoResp
    /\ all429 = FALSE
    /\ qres = <<>>
    /\ subtitles = <<>>
    /\ outcome = "none"
    /\ nHttp = 0
    /\ nPace = 0
    /\ first401 = FALSE
    /\ threads = [inv |-> <<IdleLocals, IdleLocals>>, inflight |-> {}]
    /\ sync = NoSync

\* invocation p takes the step next of its code
ThreadStep(p, next) ==
    /\ threads' = [threads EXCEPT !.inv[p] = next]
    /\ UNCHANGED <<pc, video, titles, ti, tier, query, attempt, sleeps, last,
                   all429, qres, subtitles, outcome, nHttp, nPace, first401,
                   sync>>

ThreadStart(p) ==
    /\ threads.inv[p].pc = "idle"
    /\ ThreadStep(p, ThreadListSubtitles(threads.inv[p], ThreadVideos[p]))

ThreadCall(p) ==
    /\ threads.inv[p].pc = "call"
    /\ ThreadStep(p, ThreadRunQueryEntry(threads.inv[p]))

\* self.session.get(...) of invocation p is under way
ThreadSend(p) ==
    /\ threads.inv[p].pc = "request"
    /\ p \notin threads.inflight
    /\ threads' = [threads EXCEPT !.inflight = threads.inflight \cup {p}]
    /\ UNCHANGED <<pc, video, titles, ti, tier, query, attempt, sleeps, last,
                   all429, qres, subtitles, outcome, nHttp, nPace, first401,
                   sync>>

\* self.session.get(...) of invocation p returns resp or raises
ThreadReceive(p, resp) ==
    /\ p \in threads.inflight
    /\ LET s == [threads.inv[p] EXCEPT !.attempt = LoopVariable(threads, p)]
       IN  threads' = [inv |-> [threads.inv EXCEPT ![p] = ThreadAttempt(s, resp)],
                       inflight |-> threads.inflight \ {p}]
    /\ UNCHANGED <<pc, video, titles, ti, tier, query, attempt, sleeps, last,
                   all429, qres, subtitles, outcome, nHttp, nPace, first401,
                   sync>>

ThreadReturn(p) ==
    /\ threads.inv[p].pc = "returned"
    /\ ThreadStep(p, ThreadAfterRunQuery(threads.inv[p]))

ThreadsNext ==
    \/ \E p \in Threads : ThreadStart(p)
    \/ \E p \in Threads : ThreadCall(p)
    \/ \E p \in Threads : ThreadSend(p)
    \/ \E p \in Threads, resp \in ThreadAnswers : ThreadReceive(p, resp)
    \/ \E p \in Threads : ThreadReturn(p)

SpecThreads == ThreadsInit /\ [][ThreadsNext]_vars

(***************************************************************************)
(* sync_subtitles (bazarr/subtitles/sync.py).  sync holds the arguments    *)
(* and settings the call reads, its position, and what it has done: the    *)
(* calls of jobs_queue and of SubSyncer.sync, and the value returned.      *)
(* A job_id or sonarr_episode_id is TRUE when it is given (truthy).        *)
(***************************************************************************)
SubsyncSettings ==
    [use_subsync : BOOLEAN,
     use_subsync_threshold : BOOLEAN, subsync_threshold : {50},
     use_subsync_movie_threshold : BOOLEAN, subsync_movie_threshold : {70}]

SyncCalls ==
    [pc : {"start"}, settings : SubsyncSettings, forced : BOOLEAN,
     percent_score : {40, 50, 60, 70, 80}, sonarr_episode_id : BOOLEAN,
     job_id : BOOLEAN, progress : {<<>>}, added : {FALSE}, called : {FALSE},
     raised : {FALSE}, result : {"none"}]

SyncInit ==
    /\ pc = "idle"
    /\ video = NoVideo
    /\ titles = <<>>
    /\ ti = 0
    /\ tier = 0
    /\ query = NoQuery
    /\ attempt = 0
    /\ sleeps = <<>>
    /\ last = NoResp
    /\ all429 = FALSE
    /\ qres = <<>>
    /\ subtitles = <<>>
    /\ outcome = "none"
    /\ nHttp = 0
    /\ nPace = 0
    /\ first401 = FALSE
    /\ threads = NoThreads
    /\ sync \in SyncCalls

\* a threshold test that lets a score equal to the threshold through
BelowThreshold_inclusive(use_subsync_threshold, percent_score, subsync_threshold) ==
    \/ ~use_subsync_threshold
    \/ use_subsync_threshold /\ percent_score <= subsync_threshold

\* "not use_subsync_threshold or (use_subsync_threshold and percent_score <
\* float(subsync_threshold))"
BelowThreshold(use_subsync_threshold, percent_score, subsync_threshold) ==
    \/ ~use_subsync_threshold
    \/ use_subsync_threshold /\ percent_score < subsync_threshold

\* the threshold settings sync_subtitles reads: those of series when a
\* sonarr_episode_id is given, else those of movies
Threshold(c) ==
    IF c.sonarr_episode_id
    THEN [use |-> c.settings.use_subsync_threshold,
          value |-> c.settings.subsync_threshold]
    ELSE [use |-> c.settings.use_subsync_movie_threshold,
          value |-> c.settings.subsync_movie_threshold]

SyncStep(next) ==
    /\ sync' = next
    /\ UNCHANGED <<pc, video, titles, ti, tier, query, attempt, sleeps, last,
                   all429, qres, subtitles, outcome, nHttp, nPace, first401,
                   threads>>

\* sync_subtitles from its entry to the call of SubSyncer.sync, to the last
\* statements of the function, or to an early return
SyncEnter ==
    /\ sync.pc = "start"
    /\ SyncStep(
          IF ~sync.settings.use_subsync
          THEN [sync EXCEPT !.pc = "returned", !.result = "False"]
          ELSE IF ~sync.job_id
          THEN [sync EXCEPT !.pc = "returned", !.result = "False",
                            !.added = TRUE]
          ELSE LET shown == [sync EXCEPT !.progress = Append(@, "progress_max")]
                   t == Threshold(sync)
               IN  IF sync.forced THEN [shown EXCEPT !.pc = "end"]
                   ELSE IF BelowThreshold(t.use, sync.percent_score, t.value)
                   THEN [shown EXCEPT !.pc = "try"]
                   ELSE [shown EXCEPT !.pc = "end"])

\* subsync.sync(**sync_kwargs) returns or raises; the except and else
\* clauses choose the value to return
SyncTry(raises) ==
    /\ sync.pc = "try"
    /\ SyncStep([sync EXCEPT !.pc = "finally", !.called = TRUE,
                             !.raised = raises,
                             !.result = IF raises THEN "False" ELSE "True"])

\* the finally clause, and the return it was entered with
SyncFinally ==
    /\ sync.pc = "finally"
    /\ SyncStep([sync EXCEPT !.pc = "returned",
                             !.progress = Append(@, "progress_value")])

\* the last two statements of the function
SyncEnd ==
    /\ sync.pc = "end"
    /\ SyncStep([sync EXCEPT !.pc = "returned", !.result = "False",
                             !.progress = Append(@, "progress_value")])

SyncNext ==
    \/ SyncEnter
    \/ \E raises \in BOOLEAN : SyncTry(raises)
    \/ SyncFinally
    \/ SyncEnd

SpecSync == SyncInit /\ [][SyncNext]_vars

(***************************************************************************)
(* Properties                                                              *)
(***************************************************************************)
\* the attempt just answered ended run_query or list_subtitles
Ended == pc \in {"returned", "done"}

\* C1: when the remote answers 401 on an attempt, the search ends at that
\* attempt with ConfigurationError raised to the caller: no backoff sleep,
\* no further attempt, no empty result.  (Fails: the except clause of the
\* retry loop catches the ConfigurationError.)
C1_Unauthorized_Raises ==
    last.status = 401 => (pc = "done" /\ outcome = "ConfigurationError")

\* C2: if the very first HTTP attempt of an invocation is answered 401, the
\* invocation raises ConfigurationError and makes no further HTTP attempt.
\* (Fails for the same reason as C1.)
C2_First401_Fatal ==
    first401 => (nHttp = 1 /\ pc = "done" /\ outcome = "ConfigurationError")

\* C3: when every one of the max_retries attempts of a search is answered
\* 429, APIThrottled reaches the caller of run_query.  (Fails: the except
\* clause catches the APIThrottled of the last attempt and returns [].)
C3_Throttled_Raises ==
    (all429 /\ attempt = max_retries - 1 /\ Ended)
        => (pc = "done" /\ outcome = "APIThrottled")

\* C4: the waits of a search are 2^0, 2^1, ... seconds, one after each
\* attempt that is followed by another attempt and none after the last one,
\* so a search of three attempts has slept 1 then 2 seconds.
C4_Backoff_Exponential ==
    /\ attempt <= max_retries - 1
    /\ Len(sleeps) = attempt
    /\ \A k \in 1..Len(sleeps) : sleeps[k] = 2^(k - 1)
    /\ (Ended /\ nHttp > 0 /\ attempt = max_retries - 1) => sleeps = <<1, 2>>

C4_Witness ==
    /\ pc = "returned"
    /\ attempt = max_retries - 1
    /\ last.status = 503
    /\ sleeps = <<1, 2>>
    /\ sleeps[1] + sleeps[2] = 3

\* C5: a 400 or 404 answer on any attempt ends the search at that attempt
\* with an empty result: no sleep or attempt follows, nothing is raised.
C5_400_404_Empty ==
    [][(pc = "request" /\ last'.status \in {400, 404})
          => /\ pc' = "returned"
             /\ qres' = <<>>
             /\ outcome' = "none"
             /\ sleeps' = sleeps
             /\ attempt' = attempt]_vars

C5_Witness ==
    pc = "returned" /\ last.status = 404 /\ attempt = 1 /\ qres = <<>>

\* a status >= 500, no response at all, or an unparsable body
TransientFailure(resp) ==
    \/ resp.status >= 500
    \/ resp.status = 0
    \/ (resp.status \in 200..299 /\ resp.body.shape = "unparsable")

\* C6: a status >= 500 or a transport/parsing exception before the last
\* attempt is followed by the backoff and another attempt; on the last
\* attempt the search returns an empty result and raises nothing.
C6_Transient_Retried ==
    [][(pc = "request" /\ TransientFailure(last'))
          => IF attempt < max_retries - 1
             THEN /\ pc' = "request"
                  /\ attempt' = attempt + 1
                  /\ sleeps' = Append(sleeps, 2^attempt)
                  /\ outcome' = "none"
             ELSE /\ pc' = "returned"
                  /\ qres' = <<>>
                  /\ outcome' = "none"
                  /\ sleeps' = sleeps]_vars

C6_Witness ==
    /\ pc = "returned"
    /\ attempt = max_retries - 1
    /\ last.status = 200
    /\ last.body.shape = "unparsable"
    /\ qres = <<>>

\* a 4xx status other than 401 and 429
OtherClientError(resp) ==
    resp.status \in 400..499 /\ resp.status \notin {401, 429}

\* C7 as claimed: every 4xx answer other than 401 and 429 is non-retryable,
\* the search makes no further attempt and returns an empty result.
C7_Original ==
    OtherClientError(last) => pc # "request"

\* C7 as amended: of the 4xx answers other than 401 and 429, only 400 and
\* 404 end the search at once; any other one (403) is retried like a
\* transport exception, with the 2^attempt backoff, and ends the search with
\* an empty result on the last attempt.  None raises.
C7_Other4xx_Retried ==
    [][(pc = "request" /\ OtherClientError(last'))
          => /\ outcome' = "none"
             /\ IF last'.status \notin {400, 404} /\ attempt < max_retries - 1
                THEN /\ pc' = "request"
                     /\ attempt' = attempt + 1
                     /\ sleeps' = Append(sleeps, 2^attempt)
                ELSE /\ pc' = "returned"
                     /\ qres' = <<>>
                     /\ sleeps' = sleeps]_vars

C7_Witness ==
    pc = "request" /\ last.status = 403 /\ attempt = 2 /\ sleeps = <<1, 2>>

\* C8: list_subtitles returns a list or raises ConfigurationError, whatever
\* the remote does; no other error leaves it.  (Fails: a parsed body that
\* is no object, or an emitted item without id, raises outside the try.)
C8_Only_ConfigError_Escapes ==
    pc = "done" => outcome \in {"returned", "ConfigurationError"}

\* C9: run_query is called for the titles in order and, for each title, for
\* its tiers in order; the first non-empty result ends the invocation, which
\* returns exactly it without any later attempt.
C9_First_Result_Wins ==
    [][/\ pc' = "call" =>
            \/ pc = "idle" /\ ti' = 1 /\ tier' = 1
            \/ /\ pc = "returned" /\ qres = <<>>
               /\ \/ tier < Tiers(video) /\ ti' = ti /\ tier' = tier + 1
                  \/ tier = Tiers(video) /\ ti' = ti + 1 /\ tier' = 1
       /\ pc' = "call" =>
            /\ ti' \in 1..Len(titles')
            /\ query'.text = QueryText(video', titles'[ti'], tier')
            /\ query'.season = video'.season
            /\ query'.episode = (IF isEpisode(video') /\ tier' = 1
                                 THEN video'.episode ELSE None)
       /\ (pc = "returned" /\ qres # <<>>) =>
            /\ pc' = "done"
            /\ outcome' = "returned"
            /\ subtitles' = qres
            /\ nHttp' = nHttp
       /\ pc = "done" => FALSE]_vars

C9_Witness ==
    /\ pc = "done"
    /\ outcome = "returned"
    /\ subtitles # <<>>
    /\ isEpisode(video)
    /\ ti = 1
    /\ tier = 2
    /\ Len(titles) = 2
    /\ nHttp = 2

\* the items of the answer that are the wanted episode of the wanted season
ExactItems ==
    SelectSeq(last.body.items,
              LAMBDA it : it.season = query.season /\ it.episode = query.episode)

\* C10: with season and episode wanted and at least one item of exactly
\* that episode, the result is those items, in input order, and no season
\* pack.
C10_Exact_Suppresses_Packs ==
    (/\ last.status = 200
     /\ last.body.shape = "object"
     /\ query.season # None
     /\ query.episode # None
     /\ ExactItems # <<>>
     /\ \A i \in 1..Len(ExactItems) : ExactItems[i].id # Missing)
        => /\ pc = "returned"
           /\ Len(qres) = Len(ExactItems)
           /\ \A i \in 1..Len(qres) :
                 /\ qres[i].season = ExactItems[i].season
                 /\ qres[i].episode = ExactItems[i].episode
                 /\ qres[i].download_id = ExactItems[i].id
                 /\ qres[i].episode # None

C10_Witness ==
    /\ pc = "returned"
    /\ query.season = 1
    /\ query.episode = 1
    /\ last.body.items = <<Item(1, None, 2, None), Item(1, 1, 1, None)>>
    /\ Len(qres) = 1
    /\ qres[1].episode = 1

\* the items of the answer that are season packs of the wanted season
PackItems ==
    SelectSeq(last.body.items,
              LAMBDA it : it.season = query.season /\ it.episode = None)

\* C11: with season and episode wanted and no item of exactly that episode,
\* the result is the season packs of the wanted season, one candidate per
\* pack in input order, when there is at least one, and it is empty when
\* there is none.
C11_Fallback_To_Season_Packs ==
    (/\ last.status = 200
     /\ last.body.shape = "object"
     /\ query.season # None
     /\ query.episode # None
     /\ ExactItems = <<>>)
        => IF PackItems # <<>>
           THEN (\A i \in 1..Len(PackItems) : PackItems[i].id # Missing)
                   => /\ pc = "returned"
                      /\ qres # <<>>
                      /\ qres = [i \in 1..Len(PackItems) |->
                                    SubxSubtitle(PackItems[i])]
                      /\ \A i \in 1..Len(qres) : qres[i].episode = None
           ELSE pc = "returned" /\ qres = <<>>

C11_Witness ==
    /\ pc = "returned"
    /\ query.season = 1
    /\ query.episode = 1
    /\ last.body.items = <<Item(1, 2, 1, None), Item(1, None, 2, None)>>
    /\ qres = <<SubxSubtitle(Item(1, None, 2, None))>>

\* reached with an answer that holds neither the episode nor a season pack
C11_Witness_Empty ==
    /\ pc = "returned"
    /\ query.season = 1
    /\ query.episode = 1
    /\ last.body.items = <<Item(1, 2, 1, None), Item(2, None, 2, None)>>
    /\ qres = <<>>

\* the output of a search holds a season pack
HasPack(res) == \E i \in 1..Len(res) : res[i].episode = None

\* the output of a search holds a candidate of episode e
HasEpisode(res, e) == \E i \in 1..Len(res) : res[i].episode = e

\* the items of the answer that pass the season test of the query
SeasonItems ==
    SelectSeq(last.body.items,
              LAMBDA it : query.season = None \/ it.season = query.season)

\* C12 as stated: in every tier of an episode search a season pack is in
\* the tier's output only if no candidate of the video's episode is.
C12_Original ==
    (pc = "returned" /\ isEpisode(video) /\ HasPack(qres))
        => ~HasEpisode(qres, video.episode)

\* C12: in the exact-episode tier of an episode search a season pack is in
\* the tier's output only if no candidate of the video's episode is; a tier
\* that sets no episode keeps every item of the season, season packs and
\* episodes alike.
C12_Packs_Only_Without_Exact ==
    (pc = "returned" /\ isEpisode(video))
        => /\ (query.episode # None /\ HasPack(qres))
                 => ~HasEpisode(qres, video.episode)
           /\ (query.episode = None /\ last.status = 200
               /\ last.body.shape = "object")
                 => qres = [i \in 1..Len(SeasonItems) |->
                               SubxSubtitle(SeasonItems[i])]

C12_Witness ==
    /\ pc = "returned"
    /\ isEpisode(video)
    /\ tier = 1
    /\ query.episode = video.episode
    /\ Len(last.body.items) = 2
    /\ HasPack(qres)

\* a season-only tier whose output holds the episode and a season pack
C12_Witness_Mixed ==
    /\ pc = "returned"
    /\ isEpisode(video)
    /\ tier = 2
    /\ HasPack(qres)
    /\ HasEpisode(qres, video.episode)

\* C13: when a season is wanted every candidate of the result has that
\* season, so that an item of another season or without season is never
\* emitted; when no episode is wanted the result is exactly the items that
\* pass the season test, one candidate per item in input order, whatever
\* their episode.
C13_Season_Filter ==
    (pc = "returned" /\ last.status = 200 /\ last.body.shape = "object")
        => /\ query.season # None
                 => \A i \in 1..Len(qres) : qres[i].season = query.season
           /\ query.episode = None
                 => qres = [i \in 1..Len(SeasonItems) |->
                               SubxSubtitle(SeasonItems[i])]

\* no episode wanted: an episode, a season pack and nothing of season 2
C13_Witness ==
    /\ pc = "returned"
    /\ query.season = 1
    /\ query.episode = None
    /\ \E i \in 1..Len(last.body.items) : last.body.items[i].season # 1
    /\ Len(qres) = 1
    /\ qres[1].season = 1

\* no episode wanted: items of different episodes are all emitted
C13_Witness_Any_Episode ==
    /\ pc = "returned"
    /\ query.season = 1
    /\ query.episode = None
    /\ last.body.items = <<Item(1, 2, 1, None), Item(1, None, 2, None)>>
    /\ Len(qres) = 2

\* C14: for an episode video and a candidate without episode (a season
\* pack), the set get_matches leaves in the candidate holds "episode",
\* whatever update_matches added to or took from the set.
C14_Pack_Keeps_Episode ==
    (pc = "scored" /\ isEpisode(video) /\ subtitles[1].episode = None)
        => "episode" \in subtitles[1].matches

\* a season pack of the video's season scored by an update_matches that
\* removes attributes: "season" is gone from the set, "episode" is in it
C14_Witness ==
    /\ pc = "scored"
    /\ isEpisode(video)
    /\ subtitles[1].episode = None
    /\ subtitles[1].season = video.season
    /\ "episode" \in subtitles[1].matches
    /\ "season" \notin subtitles[1].matches

\* the answer holds nothing but season packs of the video's season
OnlySeasonPacks(resp) ==
    /\ resp.status = 200
    /\ resp.body.shape = "object"
    /\ resp.body.items # <<>>
    /\ \A i \in 1..Len(resp.body.items) :
          /\ resp.body.items[i].season = video.season
          /\ resp.body.items[i].episode = None
          /\ resp.body.items[i].id # Missing

\* C15: for an episode video whose exact-episode tier of the first title
\* found nothing, a season-only answer that holds nothing but season packs
\* of the video's season makes run_query return one candidate per item, in
\* order, each without episode and each with "episode" in what get_matches
\* gives for it; list_subtitles then returns these candidates without
\* another query, so that the title-only tier is not searched.
C15_Season_Tier_End_To_End ==
    [][/\ (pc = "request" /\ isEpisode(video) /\ ti = 1 /\ tier = 2
           /\ OnlySeasonPacks(last'))
             => /\ pc' = "returned"
                /\ qres' = [i \in 1..Len(last'.body.items) |->
                               SubxSubtitle(last'.body.items[i])]
                /\ \A i \in 1..Len(qres') :
                      /\ qres'[i].episode = None
                      /\ \A u \in Updates :
                            "episode" \in get_matches(qres'[i], video, u)
       /\ (pc = "returned" /\ isEpisode(video) /\ ti = 1 /\ tier = 2
           /\ qres # <<>>)
             => /\ pc' = "done"
                /\ outcome' = "returned"
                /\ subtitles' = qres
                /\ tier' = 2
                /\ nHttp' = nHttp]_vars

C15_Witness ==
    /\ pc = "done"
    /\ outcome = "returned"
    /\ isEpisode(video)
    /\ ti = 1
    /\ tier = 2
    /\ nHttp = 2
    /\ subtitles = <<SubxSubtitle(Item(1, None, 2, None))>>

\* the run_query calls list_subtitles has still to make after the current one
QueriesLeft == (Len(titles) - ti) * Tiers(video) + (Tiers(video) - tier)

\* the steps one run_query call takes at most: its entry, max_retries
\* attempts and the return to list_subtitles
StepsPerQuery == max_retries + 2

\* an upper bound of the steps an invocation has still to take
Measure ==
    CASE pc = "idle" -> max_alts * Tiers(FilterVideo) * StepsPerQuery + 1
      [] pc = "done" -> 0
      [] pc = "call" -> QueriesLeft * StepsPerQuery + StepsPerQuery
      [] pc = "request" -> QueriesLeft * StepsPerQuery + (max_retries - attempt) + 1
      [] pc = "returned" -> QueriesLeft * StepsPerQuery + 1

\* the HTTP attempts made stay within titles x tiers x max_retries, with at
\* most max_alts titles, and within max_retries per run_query call
HttpBound ==
    /\ Len(titles) <= max_alts
    /\ nHttp <= Len(titles) * Tiers(video) * max_retries
    /\ isEpisode(video) => nHttp <= 27
    /\ video.kind = "movie" => nHttp <= 9
    /\ pc = "request" => attempt < max_retries
    /\ pc \in {"request", "returned"} => Len(sleeps) = attempt

\* the last title x tier combination has been searched
AllSearched == ti = Len(titles) /\ tier = Tiers(video)

\* the invocation can take a step: run_query can be entered, the request
\* can be answered (if only by an exception of session.get), and
\* list_subtitles can go on after a return
CanStep ==
    CASE pc = "idle" -> ENABLED ListSubtitles(FilterVideo)
      [] pc = "call" -> ENABLED RunQueryEntry
      [] pc = "request" -> ENABLED GetRaises
      [] pc = "returned" -> ENABLED AfterRunQuery
      [] OTHER -> FALSE

\* C16: every step of an invocation lowers a natural-valued measure and
\* an invocation that has not ended can step, so an invocation ends after
\* finitely many steps whatever the remote answers;
\* the HTTP attempts never exceed titles x tiers x max_retries (27 for an
\* episode, 9 for a movie) nor max_retries per query, whatever failed; an
\* empty result of a query leads to the next title x tier combination, and
\* from the last one to the return of an empty list.
C16_Terminates_Within_Budget ==
    /\ [](/\ Measure \in Nat
          /\ pc # "done" => CanStep
          /\ HttpBound)
    /\ [][/\ Measure' < Measure
          /\ (pc = "returned" /\ qres = <<>>)
                => IF AllSearched
                   THEN /\ pc' = "done"
                        /\ outcome' = "returned"
                        /\ subtitles' = <<>>
                   ELSE pc' = "call" /\ QueriesLeft' = QueriesLeft - 1
          /\ (pc' = "done" /\ outcome' = "returned" /\ subtitles' = <<>>)
                => titles' = <<>> \/ AllSearched']_vars

\* an episode search of two titles that spent its whole budget and found
\* nothing
C16_Witness ==
    /\ pc = "done"
    /\ outcome = "returned"
    /\ subtitles = <<>>
    /\ isEpisode(video)
    /\ Len(titles) = 2
    /\ AllSearched
    /\ nHttp = 2 * 3 * max_retries

\* a run_query call of an episode search is being made or has returned
InEpisodeQuery == isEpisode(video) /\ pc \in {"call", "request", "returned"}

\* the sanitized title of the current title of the search
Title == _series_sanitizer(titles[ti])

\* the query text the tiers of an episode search carry, in the order
\* exact-episode, season-only, title-only
TierTexts ==
    <<Title \o <<" ", "S">> \o TwoDigits(video.season)
            \o <<"E">> \o TwoDigits(video.episode),
      Title \o <<" ", "S">> \o TwoDigits(video.season),
      Title>>

\* the tiers of an episode search are taken in order: a search starts at
\* tier 1 of a title, a tier is followed by the next tier of the title and
\* the last tier by the first of the next title; the query of a run_query
\* call stays what it was when the call was made
TierOrder ==
    /\ pc = "idle" /\ pc' = "call" => ti' = 1 /\ tier' = 1
    /\ (pc = "returned" /\ pc' = "call")
          => \/ tier < 3 /\ tier' = tier + 1 /\ ti' = ti
             \/ tier = 3 /\ tier' = 1 /\ ti' = ti + 1
    /\ pc \in {"call", "request"} => tier' = tier /\ ti' = ti /\ query' = query

\* C17 as stated: the title-only tier carries neither a season nor an
\* episode expectation.
C17_Original ==
    InEpisodeQuery
        => /\ tier \in 1..3
           /\ query.text = TierTexts[tier]
           /\ tier = 1 => query.season = video.season
                          /\ query.episode = video.episode
           /\ tier = 2 => query.season = video.season /\ query.episode = None
           /\ tier = 3 => query.season = None /\ query.episode = None

\* C17: an episode search takes, for each title, the tiers 1, 2, 3 in this
\* order: (1) "<title> SxxEyy" with season and episode expectation, (2)
\* "<title> Sxx" with the season expectation and no episode expectation,
\* (3) the title alone, with the season expectation and no episode
\* expectation.
C17_Three_Tiers_In_Order ==
    [][/\ isEpisode(video') => TierOrder
       /\ (isEpisode(video') /\ pc' = "call")
             => /\ tier' \in 1..3
                /\ query'.text = TierTexts'[tier']
                /\ tier' = 1 => query'.season = video'.season
                                /\ query'.episode = video'.episode
                /\ tier' = 2 => query'.season = video'.season
                                /\ query'.episode = None
                /\ tier' = 3 => query'.season = video'.season
                                /\ query'.episode = None]_vars

\* the title-only tier of an episode search, being requested
C17_Witness ==
    /\ pc = "request"
    /\ isEpisode(video)
    /\ tier = 3
    /\ titles[ti] = <<"a">>
    /\ query.text = <<"a">>
    /\ query.season = 1
    /\ query.episode = None

\* the exact-episode tier of the second title
C17_Witness_Text ==
    /\ pc = "request"
    /\ isEpisode(video)
    /\ ti = 2
    /\ tier = 1
    /\ query.text = <<"b", " ", "S", "0", "1", "E", "0", "1">>

\* C18: every query of an episode search carries the video's season, and
\* it carries an episode expectation, the video's episode, in the
\* exact-episode tier and in no other.
C18_Season_Every_Tier ==
    InEpisodeQuery
        => /\ query.season # None
           /\ query.season = video.season
           /\ query.episode # None <=> tier = 1
           /\ tier = 1 => query.episode = video.episode

\* the season-only tier of the second title, being requested
C18_Witness ==
    /\ pc = "request"
    /\ isEpisode(video)
    /\ ti = 2
    /\ tier = 2
    /\ query.season = video.season
    /\ query.episode = None

\* the answer has a success status and a body that response.json() parses
ParsedSuccess(resp) ==
    resp.status \in 200..299 /\ resp.body.shape # "unparsable"

\* the items of the answer that the filter is to emit for the query: those
\* of the wanted season when no episode is wanted, else those of the wanted
\* episode, else the season packs
WantedItems ==
    LET inSeason(it) == query.season = None \/ it.season = query.season
        exact == SelectSeq(last.body.items,
                           LAMBDA it : inSeason(it) /\ it.episode = query.episode)
        packs == SelectSeq(last.body.items,
                           LAMBDA it : it.season = query.season /\ it.episode = None)
    IN  IF query.episode = None
        THEN SelectSeq(last.body.items, inSeason)
        ELSE IF exact # <<>> THEN exact ELSE packs

\* C19: an attempt answered with a success status and a parsable body is
\* the last of its run_query call, whatever number of attempts failed
\* before it: no sleep is added and no attempt counted for a retry, the
\* call returns (or an exception ends the invocation), and the next step
\* is list_subtitles's, without an HTTP attempt; for a JSON object whose
\* items have ids the call returns one candidate per item the filter is to
\* emit, in order, and for a null body it returns nothing.
C19_Success_Ends_Retry_Loop ==
    [][/\ (pc = "request" /\ ParsedSuccess(last'))
             => /\ pc' \in {"returned", "done"}
                /\ nHttp' = nHttp + 1
                /\ sleeps' = sleeps
                /\ attempt' = attempt
                /\ last'.body.shape = "null" => pc' = "returned" /\ qres' = <<>>
                /\ (/\ last'.body.shape = "object"
                    /\ \A i \in 1..Len(last'.body.items) :
                          last'.body.items[i].id # Missing)
                      => /\ pc' = "returned"
                         /\ qres' = [i \in 1..Len(WantedItems') |->
                                        SubxSubtitle(WantedItems'[i])]
       /\ pc = "returned"
             => /\ nHttp' = nHttp
                /\ pc' \in {"call", "done"}
                /\ sleeps' = <<>>]_vars

\* a search answered with candidates on its third attempt, after two
\* failed attempts and their two sleeps
C19_Witness ==
    /\ pc = "returned"
    /\ ParsedSuccess(last)
    /\ attempt = 2
    /\ sleeps = <<1, 2>>
    /\ qres # <<>>

\* no two candidates of the list have the same id (page link)
Deduplicated(res) ==
    \A i, j \in 1..Len(res) : i # j => res[i].page_link # res[j].page_link

\* C20: the candidates a search returns, from run_query and from
\* list_subtitles, are deduplicated by id, also when the answer lists an
\* item twice.
C20_Deduplicated ==
    /\ pc = "returned" => Deduplicated(qres)
    /\ (pc = "done" /\ outcome = "returned") => Deduplicated(subtitles)

\* C21: the set the base rules of get_matches give holds, for an episode
\* video, "title", "series" and "year", "season" exactly when the
\* candidate's season is the video's, "episode" exactly when the
\* candidate's episode is the video's or the candidate has none, and
\* nothing else; for a movie video it is {"title", "year"}.
C21_Base_Rules ==
    pc = "scored"
        => LET base == qres[1].matches
               c == subtitles[1]
           IN  /\ isEpisode(video)
                     => /\ {"title", "series", "year"} \subseteq base
                        /\ "season" \in base <=> c.season = video.season
                        /\ "episode" \in base
                              <=> (c.episode = video.episode \/ c.episode = None)
                        /\ base \subseteq
                              {"title", "series", "year", "season", "episode"}
               /\ video.kind = "movie" => base = {"title", "year"}

\* a season pack of another season scored for an episode video
C21_Witness ==
    /\ pc = "scored"
    /\ isEpisode(video)
    /\ subtitles[1].season = 2
    /\ subtitles[1].episode = None
    /\ qres[1].matches = {"title", "series", "year", "episode"}

\* a candidate scored for a movie video
C21_Witness_Movie ==
    /\ pc = "scored"
    /\ video.kind = "movie"
    /\ qres[1].matches = {"title", "year"}

\* the titles of the video as given: the primary title, then the
\* alternatives
GivenTitles == <<video.title>> \o video.alts

\* the places of GivenTitles that hold a non-empty title not given before
KeptPlaces ==
    {i \in 1..Len(GivenTitles) :
        /\ GivenTitles[i] # <<>>
        /\ \A j \in 1..(i - 1) : GivenTitles[j] # GivenTitles[i]}

\* the k-th of the kept places
KeptPlace(k) ==
    CHOOSE i \in KeptPlaces : Cardinality({j \in KeptPlaces : j <= i}) = k

\* C22: the collected titles are non-empty and pairwise different, at most
\* max_alts many, and they are the first ones of the given titles (primary
\* title, then alternatives in order) with empty and repeated entries
\* left out; a non-empty primary title comes first, and the list is empty
\* only if the primary title is empty.
C22_Collect_Titles ==
    pc = "collected"
        => /\ \A i \in 1..Len(titles) : titles[i] # <<>>
           /\ \A i, j \in 1..Len(titles) : i # j => titles[i] # titles[j]
           /\ Len(titles) <= max_alts
           /\ Len(titles) = IF Cardinality(KeptPlaces) <= max_alts
                            THEN Cardinality(KeptPlaces) ELSE max_alts
           /\ \A k \in 1..Len(titles) : titles[k] = GivenTitles[KeptPlace(k)]
           /\ video.title # <<>> => titles # <<>> /\ titles[1] = video.title
           /\ titles = <<>> => video.title = <<>>

\* four different titles after an empty and a repeated one: the fourth is
\* cut off
C22_Witness ==
    /\ pc = "collected"
    /\ video.title = <<"a">>
    /\ video.alts = <<<<>>, <<"a">>, <<"b">>, <<"c">>>>
    /\ titles = <<<<"a">>, <<"b">>, <<"c">>>>

\* more than max_alts different titles given
C22_Witness_Cut ==
    /\ pc = "collected"
    /\ Cardinality(KeptPlaces) > max_alts
    /\ Len(titles) = max_alts

\* the text is free of separators, of runs of whitespace and of whitespace
\* at its ends
Sanitized(t) ==
    /\ \A i \in 1..Len(t) : t[i] \notin {".", "_"}
    /\ \A i \in 1..(Len(t) - 1) :
          ~(t[i] \in {" ", "\t"} /\ t[i + 1] \in {" ", "\t"})
    /\ t # <<>> => t[1] \notin {" ", "\t"} /\ t[Len(t)] \notin {" ", "\t"}

\* C23: what _series_sanitizer returns has no "." and no "_", no two
\* whitespace characters in a row and no whitespace at its ends, and
\* sanitizing it again returns it unchanged.
C23_Sanitizer_Idempotent ==
    /\ Len(titles) >= 2 => Sanitized(titles[2])
    /\ Len(titles) = 3 => titles[3] = titles[2]

\* a title with separators and whitespace next to each other, sanitized
\* twice
C23_Witness ==
    /\ pc = "sanitized"
    /\ titles[1] = <<"a", " ", ".", "a">>
    /\ titles[2] = <<"a", " ", "a">>
    /\ titles[3] = <<"a", " ", "a">>

\* the empty title, sanitized twice
C23_Witness_Empty ==
    pc = "sanitized" /\ titles = <<<<>>, <<>>, <<>>>>

\* the variables of the single invocation, as locals of an invocation
Here ==
    [pc |-> pc, video |-> video, titles |-> titles, ti |-> ti, tier |-> tier,
     query |-> query, attempt |-> attempt, sleeps |-> sleeps, last |-> last,
     all429 |-> all429, qres |-> qres, subtitles |-> subtitles,
     outcome |-> outcome, nHttp |-> nHttp, nPace |-> nPace,
     first401 |-> first401]

\* The steps of an invocation among several are the steps of the single
\* invocation: every step of the latter is the step the former takes from
\* the same locals with the same video or answer.
ThreadStepsAgree ==
    [][Here' = CASE pc = "idle" -> ThreadListSubtitles(Here, video')
                 [] pc = "call" -> ThreadRunQueryEntry(Here)
                 [] pc = "request" -> ThreadAttempt(Here, last')
                 [] pc = "returned" -> ThreadAfterRunQuery(Here)]_vars

\* the locals an invocation that runs alone can have after one step from
\* the locals s, p's video being the one it is called with
SoloSteps(p, s) ==
    CASE s.pc = "idle" -> {ThreadListSubtitles(s, ThreadVideos[p])}
      [] s.pc = "call" -> {ThreadRunQueryEntry(s)}
      [] s.pc = "request" -> {ThreadAttempt(s, r) : r \in ThreadAnswers}
      [] s.pc = "returned" -> {ThreadAfterRunQuery(s)}
      [] OTHER -> {}

\* C24: whatever the other invocation does and whenever it does it, a step
\* of an invocation changes the locals of this invocation only, and it
\* changes them as a step of the invocation running alone does, the answer
\* being the same; a request changes nothing but what is in flight on the
\* session.
C24_Invocations_Independent ==
    [][\A p \in Threads :
          LET s == threads.inv[p]
              t == threads'.inv[p]
          IN  /\ t # s
                    => /\ t \in SoloSteps(p, s)
                       /\ \A q \in Threads \ {p} :
                             threads'.inv[q] = threads.inv[q]
              /\ (s.pc = "request" /\ t.pc = "request" /\ t.nHttp = s.nHttp + 1)
                    => /\ t.attempt = s.attempt + 1
                       /\ Len(t.sleeps) = Len(s.sleeps) + 1
              /\ threads'.inflight # threads.inflight
                    => t.pc = s.pc \/ s.pc = "request"]_vars

\* both requests in flight, the invocations being at different attempts
C24_Witness ==
    /\ threads.inflight = {1, 2}
    /\ threads.inv[1].attempt = 2
    /\ threads.inv[2].attempt = 1
    /\ threads.inv[1].tier = 2

\* both invocations have ended, one with a candidate, one with none
C24_Witness_Ended ==
    /\ threads.inv # <<>>
    /\ threads.inv[1].pc = "done"
    /\ threads.inv[2].pc = "done"
    /\ threads.inv[1].subtitles # <<>>
    /\ threads.inv[2].subtitles = <<>>
    /\ threads.inv[2].nHttp = 3

\* the invocation has ended with an empty list after trying every title
Exhausted == pc = "done" /\ outcome = "returned" /\ subtitles = <<>>

\* C25: list_subtitles has slept time.sleep(1) once for each title all of
\* whose tiers found nothing: while title ti is searched, in any of its
\* tiers, and when the search ends with candidates of title ti (or with an
\* exception), ti - 1 times; when it ends exhausted, once for each title,
\* the last one included.
C25_Pacing_Per_Failed_Title ==
    /\ pc \in {"call", "request", "returned"} => nPace = ti - 1
    /\ pc = "done" => nPace = IF Exhausted THEN Len(titles) ELSE ti - 1

\* the season-only tier of the second title: one pacing delay so far
C25_Witness ==
    /\ pc = "request"
    /\ ti = 2
    /\ tier = 2
    /\ nPace = 1

\* an exhausted search of two titles
C25_Witness_Exhausted ==
    /\ Exhausted
    /\ Len(titles) = 2
    /\ nPace = 2

\* candidates found for the second title
C25_Witness_Found ==
    /\ pc = "done"
    /\ subtitles # <<>>
    /\ ti = 2
    /\ nPace = 1

\* the parameters of the first request of the invocation
FirstParams == Params(video, Query(video, titles[1], 1))

\* the season= and episode= arguments of a query
Expectations(q) == <<q.season, q.episode>>

\* of the season-only and the title-only tier, the other one
OtherBroadTier(t) == 5 - t

\* C26: a request carries either imdb_id or title, never both and never
\* neither.  For a video with an imdb_id it carries the imdb_id and no
\* title, its parameters are those of the first request of the invocation
\* whatever the title and the tier, and the season-only and title-only
\* tiers carry the same expectations too.  For a video without imdb_id it
\* carries the query text as title; with an empty query text run_query
\* returns an empty list and makes no HTTP attempt.
C26_Imdb_Or_Title ==
    LET params == Params(video, query)
    IN  /\ pc = "request"
              => /\ params.by \in {"imdb_id", "title"}
                 /\ (params.imdb_id # "") # (params.title # <<>>)
                 /\ params.limit = 200
                 /\ params.video_type = video.kind
                 /\ params.year = video.year
        /\ (pc \in {"call", "request", "returned"} /\ video.imdb_id # "")
              => /\ params.imdb_id = video.imdb_id
                 /\ params.title = <<>>
                 /\ params = FirstParams
                 /\ tier \in {2, 3}
                       => Expectations(query)
                             = Expectations(Query(video, titles[ti],
                                                  OtherBroadTier(tier)))
        /\ (pc \in {"call", "request", "returned"} /\ video.imdb_id = "")
              => /\ params.imdb_id = ""
                 /\ params.title = query.text
        /\ (pc \in {"request", "returned"} /\ video.imdb_id = ""
            /\ query.text = <<>>)
              => /\ pc = "returned"
                 /\ qres = <<>>
                 /\ last = NoResp
                 /\ attempt = 0

\* the title-only tier of the second title of an episode with imdb_id
C26_Witness ==
    /\ pc = "request"
    /\ isEpisode(video)
    /\ video.imdb_id = "tt1"
    /\ ti = 2
    /\ tier = 3
    /\ nHttp > 0
    /\ Params(video, query).year = 2008

\* a title-only query without text: the title "_" sanitizes to nothing
C26_Witness_No_Criteria ==
    /\ pc = "returned"
    /\ video.imdb_id = ""
    /\ query.text = <<>>
    /\ tier = 3
    /\ qres = <<>>
    /\ last = NoResp

\* the updates of the job's progress to complete made so far
Completions ==
    Len(SelectSeq(sync.progress, LAMBDA u : u = "progress_value"))

\* C27: sync_subtitles returns True exactly when SubSyncer.sync was called
\* and did not raise; sync is called only if subsync is enabled, a job_id
\* is given, the subtitle is not forced and the threshold that applies is
\* disabled or above the score; and when subsync is enabled and a job_id
\* is given the job's progress has been set to complete exactly once when
\* the function returns, and not before its last step, also when sync
\* raised.
C27_Sync_Subtitles ==
    /\ sync.pc = "returned"
          => /\ sync.result \in {"True", "False"}
             /\ sync.result = "True" <=> (sync.called /\ ~sync.raised)
             /\ (sync.settings.use_subsync /\ sync.job_id) => Completions = 1
    /\ (sync.pc \in {"try", "finally", "end", "returned"} /\ sync.called)
          => /\ sync.settings.use_subsync
             /\ sync.job_id
             /\ ~sync.forced
             /\ \/ ~Threshold(sync).use
                \/ sync.percent_score < Threshold(sync).value
    /\ sync.pc \in {"start", "try", "finally", "end"} => Completions = 0

\* sync raised: False is returned and the progress was completed once
C27_Witness ==
    /\ sync.pc = "returned"
    /\ sync.called
    /\ sync.raised
    /\ sync.result = "False"
    /\ sync.progress = <<"progress_max", "progress_value">>

\* a movie subtitle whose score is the movie threshold: not synced
C27_Witness_Threshold ==
    /\ sync.pc = "returned"
    /\ ~sync.sonarr_episode_id
    /\ sync.settings.use_subsync_movie_threshold
    /\ sync.percent_score = 70
    /\ ~sync.called
    /\ sync.progress = <<"progress_max", "progress_value">>

\* sync returned: True is returned
C27_Witness_Synced ==
    sync.pc = "returned" /\ sync.result = "True" /\ Completions = 1

====
